---- MODULE Spec2Model ----
(***************************************************************************)
(* Model of libiio's DNS-SD scan backend (dns_sd.c): the linked list of    *)
(* discovered hosts, node removal, the port-knock validator, the           *)
(* deduplicator, the scan orchestrator and the single-host shortcut.       *)
(*                                                                         *)
(* The list is modelled as a heap of nodes with explicit `next' pointers.  *)
(* Every traversal of dns_sd.c stops at the node whose `next' is NULL      *)
(* without reading its fields (lines 44, 161, 220, 221, 259): a list of n  *)
(* discovered hosts is a chain of n records followed by one empty          *)
(* placeholder node.                                                       *)
(***************************************************************************)
EXTENDS Integers, Sequences, FiniteSets, TLC

----------------------------------------------------------------------------
(* Bounds of the model *)

\* the largest number of discovered hosts in one list
MaxRecs == 3

\* the largest number of address candidates getaddrinfo() yields for one host
MaxCands == 2

\* the largest capacity a caller passes to dnssd_discover_host()
MaxAddrLen == 3

\* the largest number of devices of a session
MaxDevices == 2

\* the largest number of entries in the result set before the scan
MaxPrev == 2

----------------------------------------------------------------------------
(* Program constants *)

NULL == 0

MaxNodes == MaxRecs + 1

Ids == 1..MaxNodes

Hosts == {"h1", "h2"}

Addrs == {"a1", "a2"}

IIOD_PORT == 30431

\* a port other than the daemon's default
OtherPort == IIOD_PORT + 1

Ports == {IIOD_PORT, OtherPort}

ENXIO == 6

ENOMEM == 12

\* char description[255]
DescriptionSize == 255

\* <sys/param.h>, the value on Linux
MAXHOSTNAMELEN == 64

\* char uri[MAXHOSTNAMELEN + 3]
UriSize == MAXHOSTNAMELEN + 3

\* the fields of one struct dns_sd_discovery_data that dns_sd.c reads
RecordKinds == [hostname : Hosts, addr_str : Addrs, port : Ports]

\* the zero-filled placeholder that ends every list
EmptyNode == [hostname |-> "", addr_str |-> "", port |-> 0]

VARIABLES
    pc,       \* which operation ran last
    mem,      \* the list: head pointer, next pointers, free counts and
              \* the order of the frees, faults,
              \* the nodes' lock references and the state of the lock
    rec,      \* the fields of every node
    cand,     \* what the network answers when a node's host is knocked
    orig,     \* the chain (node ids) the run started from
    before,   \* the chain before the last operation
    arg,      \* the argument of the last operation
    passes,   \* how many deduplication passes have run
    hosts,    \* the hosts advertised on the network, as discovery reports them
    scan_result, \* the caller's struct iio_scan_result: a sequence of entries
    res0,     \* the caller's result set before the call
    ret,      \* the value the last call returned
    find,     \* what dnssd_find_hosts() answered in the last call
    built,    \* the nodes dnssd_fill_context_info() was called for, in order
    inj,      \* the session and the allocation failure the last call met
    out       \* the caller's outputs of dnssd_discover_host()

listVars == <<mem, rec, cand, orig, before, arg, passes>>

scanVars == <<hosts, scan_result, res0, ret, find, built, inj, out>>

vars == <<pc, mem, rec, cand, orig, before, arg, passes,
          hosts, scan_result, res0, ret, find, built, inj, out>>

----------------------------------------------------------------------------
(* The list *)

RECURSIVE ChainFrom(_, _, _)
ChainFrom(nx, p, fuel) ==
    IF p = NULL \/ fuel = 0 THEN <<>>
    ELSE <<p>> \o ChainFrom(nx, nx[p], fuel - 1)

\* the nodes reachable from the head, in order
Chain(s) == ChainFrom(s.next, s.d, MaxNodes)

\* the records of a chain: every node but the trailing placeholder
RecordsOf(c) == IF c = <<>> THEN <<>> ELSE SubSeq(c, 1, Len(c) - 1)

Records(s) == RecordsOf(Chain(s))

\* a fresh list of n records: nodes 1..n, then the placeholder n+1
NewList(n) ==
    [d       |-> 1,
     next    |-> [i \in Ids |-> IF i <= n THEN i + 1 ELSE NULL],
     freed   |-> [i \in Ids |-> 0],
     order   |-> <<>>,
     crashed |-> FALSE,
     uaf     |-> FALSE,
     trap    |-> FALSE,
     lock    |-> [i \in Ids |-> TRUE],
     held    |-> FALSE,
     acq     |-> 0,
     rel     |-> 0,
     badrel  |-> FALSE,
     bare    |-> FALSE,
     mis     |-> FALSE]

\* free(): the node's memory is released; its stale contents stay readable
\* by a dangling pointer
dnssd_free_discovery_data(s, p) ==
    [s EXCEPT !.freed[p] = @ + 1, !.order = Append(@, p)]

\* a plausible slip: the node is freed but the predecessor is not re-linked
RECURSIVE RemoveWalkNoRelink(_, _, _, _, _)
RemoveWalkNoRelink(s, ndata, ldata, i, n) ==
    IF s.next[ndata] = NULL THEN s
    ELSE IF i = n
         THEN dnssd_free_discovery_data(s, ndata)
         ELSE RemoveWalkNoRelink(s, s.next[ndata], ndata, i + 1, n)

\* lines 44-56: walk to the node at ordinal n and snip it out; the node whose
\* next is NULL ends the walk before it is compared with n
RECURSIVE RemoveWalk(_, _, _, _, _)
RemoveWalk(s, ndata, ldata, i, n) ==
    IF s.next[ndata] = NULL THEN s
    ELSE IF i = n
         THEN [dnssd_free_discovery_data(s, ndata)
                 EXCEPT !.next[ldata] = s.next[ndata]]
         ELSE RemoveWalk(s, s.next[ndata], ndata, i + 1, n)

dnssd_remove_node(s, n) ==
    IF s.crashed THEN s
    ELSE IF s.d = NULL THEN [s EXCEPT !.crashed = TRUE]
    ELSE IF n = 0
         THEN [dnssd_free_discovery_data(s, s.d) EXCEPT !.d = s.next[s.d]]
         ELSE RemoveWalk(s, s.d, NULL, 0, n)

\* a plausible slip: the loop stops at the node whose next is NULL, as the
\* other loops of the file do
RECURSIVE FreeAllKeepsLast(_)
FreeAllKeepsLast(s) ==
    IF s.crashed \/ s.d = NULL THEN s
    ELSE IF s.next[s.d] = NULL THEN s
    ELSE FreeAllKeepsLast(dnssd_remove_node(s, 0))

\* lines 295-299: remove the head until the list is empty
RECURSIVE dnssd_free_all_discovery_data(_)
dnssd_free_all_discovery_data(s) ==
    IF s.crashed \/ s.d = NULL THEN s
    ELSE dnssd_free_all_discovery_data(dnssd_remove_node(s, 0))

\* a read through pointer p: NULL faults; a freed node is a use after free,
\* which either yields the stale contents or (s.trap) stops the process
Touch(s, p) ==
    IF s.crashed THEN s
    ELSE IF p = NULL THEN [s EXCEPT !.crashed = TRUE]
    ELSE IF s.freed[p] > 0 THEN [s EXCEPT !.uaf = TRUE, !.crashed = s.trap]
    ELSE s

\* iio_mutex_lock(p->lock): the list's lock is taken through the reference
\* node p carries; a node without the reference holds a null pointer
iio_mutex_lock(s, p) ==
    IF s.crashed THEN s
    ELSE IF s.lock[p] THEN [s EXCEPT !.held = TRUE, !.acq = @ + 1]
    ELSE [s EXCEPT !.crashed = TRUE]

\* iio_mutex_unlock(p->lock): through a node that carries the reference the
\* list's lock is released; through a node that does not, it stays held and
\* the call is harmless or (s.trap) fatal
iio_mutex_unlock(s, p) ==
    IF s.crashed THEN s
    ELSE IF s.lock[p] THEN [s EXCEPT !.held = FALSE, !.rel = @ + 1]
    ELSE [s EXCEPT !.badrel = TRUE, !.crashed = s.trap]

\* one step of a pass over the list; bare records a step made while the
\* lock is not held
Step(s) == [s EXCEPT !.bare = @ \/ ~s.held]

\* ordinal n (counted from 0) of the list is node p
Designates(s, n, p) == n + 1 <= Len(Chain(s)) /\ Chain(s)[n + 1] = p

\* the call dnssd_remove_node(&d, n) a pass makes for the record its cursor
\* p points to; mis records a call whose index is not that record's
RemoveAt(s, n, p) ==
    dnssd_remove_node([Step(s) EXCEPT !.mis = @ \/ ~Designates(s, n, p)], n)

\* !strcmp(mdata->hostname, ndata->hostname) && !strcmp(mdata->addr_str, ...)
SameKey(m, n) ==
    /\ rec[m].hostname = rec[n].hostname
    /\ rec[m].addr_str = rec[n].addr_str

\* lines 221-229: the inner loop of the deduplicator
RECURSIVE DupInner(_, _, _, _)
DupInner(s, ndata, mdata, j) ==
    LET s1 == Touch(Step(s), mdata) IN
    IF s1.crashed THEN s1
    ELSE IF s1.next[mdata] = NULL THEN s1
    ELSE LET s2 == Touch(s1, ndata)
             s3 == IF s2.crashed THEN s2
                   ELSE IF SameKey(mdata, ndata)
                        THEN RemoveAt(s2, j, mdata)
                        ELSE s2
             s4 == Touch(s3, mdata)
         IN  IF s4.crashed THEN s4
             ELSE DupInner(s4, ndata, s4.next[mdata], j + 1)

\* lines 220-231: the outer loop of the deduplicator
RECURSIVE DupOuter(_, _, _)
DupOuter(s, ndata, i) ==
    LET s1 == Touch(Step(s), ndata) IN
    IF s1.crashed THEN s1
    ELSE IF s1.next[ndata] = NULL THEN s1
    ELSE LET s2 == DupInner(s1, ndata, s1.next[ndata], i + 1)
             s3 == Touch(s2, ndata)
         IN  IF s3.crashed THEN s3
             ELSE DupOuter(s3, s3.next[ndata], i + 1)

\* lines 206-235
remove_dup_discovery_data(s) ==
    IF s.crashed THEN s
    ELSE IF s.d = NULL THEN s
    ELSE IF s.next[s.d] = NULL THEN s
    ELSE LET s1 == DupOuter(iio_mutex_lock(s, s.d), s.d, 0)
         IN  iio_mutex_unlock(Touch(s1, s1.d), s1.d)

\* what the network answers for one host: <<>> when getaddrinfo() fails, else
\* one flag per resolved candidate, TRUE when create_socket() connects
CandOutcomes == UNION {[1..k -> BOOLEAN] : k \in 0..MaxCands}

\* lines 180-196: one probe per resolved candidate of the host at ndata; a
\* failed probe removes node i, a successful one increments i
RECURSIVE KnockCands(_, _, _, _, _)
KnockCands(s, ndata, c, k, i) ==
    IF k > Len(c) THEN [s |-> s, i |-> i]
    ELSE IF c[k] THEN KnockCands(s, ndata, c, k + 1, i + 1)
    ELSE KnockCands(RemoveAt(s, i, ndata), ndata, c, k + 1, i)

\* lines 161-199: the validator's loop.  freeaddrinfo(res) at line 198 runs
\* on a pointer getaddrinfo() never set when the resolution failed: harmless
\* or (s.trap) fatal
RECURSIVE KnockLoop(_, _, _)
KnockLoop(s, ndata, i) ==
    LET s1 == Touch(Step(s), ndata) IN
    IF s1.crashed THEN s1
    ELSE IF s1.next[ndata] = NULL THEN s1
    ELSE LET r  == IF cand[ndata] = <<>>
                   THEN [s |-> [RemoveAt(s1, i, ndata)
                                  EXCEPT !.crashed = @ \/ s1.trap],
                         i |-> i]
                   ELSE KnockCands(s1, ndata, cand[ndata], 1, i)
             s2 == Touch(r.s, ndata)
         IN  IF s2.crashed THEN s2
             ELSE KnockLoop(s2, s2.next[ndata], r.i)

\* lines 154-204
port_knock_discovery_data(s) ==
    LET s0 == iio_mutex_lock(Touch(s, s.d), s.d)
        s1 == IF s0.crashed THEN s0 ELSE KnockLoop(s0, s0.d, 0)
    IN  iio_mutex_unlock(Touch(s1, s1.d), s1.d)

----------------------------------------------------------------------------
(* Descriptors *)

\* a char * and what it points to: NULL, a live string, or a freed one
NullStr == [st |-> "null", txt |-> ""]

Str(x) == [st |-> "live", txt |-> x]

FreedStr(x) == [st |-> "freed", txt |-> x]

\* a zero-filled struct iio_context_info
EmptyInfo == [uri |-> NullStr, description |-> NullStr]

\* the sessions network_create_context() can open: the two attributes, the
\* devices' names (NULL for an unnamed device) and the context description
DeviceNames == {NullStr, Str("adc"), Str("dac")}

\* the text of n copies of the character c
RECURSIVE Pad(_, _)
Pad(c, n) == IF n = 0 THEN "" ELSE c \o Pad(c, n - 1)

Sessions ==
    [hw_model    : {NullStr, Str("M2K")},
     hw_serial   : {NullStr, Str("SN123")},
     devices     : UNION {[1..k -> DeviceNames] : k \in 0..MaxDevices},
     description : {"ctx"}]

\* snprintf(buf, size, ...): at most size - 1 characters are stored
Snprintf(size, x) ==
    IF size <= 0 THEN ""
    ELSE IF Len(x) > size - 1 THEN SubSeq(x, 1, size - 1) ELSE x

\* lines 85-88
Uri(hostname, port) ==
    IF port = IIOD_PORT
    THEN "ip:" \o hostname
    ELSE "ip:" \o hostname \o ":" \o ToString(port)

\* lines 74, 85-88: sprintf() stores the text and its terminating zero
\* whatever the size of uri[]; TRUE when it writes past the end of the array
UriOverrun(hostname, port) == Len(Uri(hostname, port)) + 1 > UriSize

\* lines 105-111: the names of all devices but the last, each followed by ","
RECURSIVE DeviceList(_, _, _)
DeviceList(description, devices, i) ==
    IF i > Len(devices) - 1 THEN description
    ELSE IF devices[i].st = "live"
         THEN DeviceList(
                description \o Snprintf(DescriptionSize - Len(description) - 1,
                                        devices[i].txt \o ","),
                devices, i + 1)
         ELSE DeviceList(description, devices, i + 1)

\* a plausible slip: the serial number is looked at before the model
DescriptionSerialFirst(addr_str, sess) ==
    IF sess.hw_serial.st = "live"
    THEN Snprintf(DescriptionSize, addr_str \o " " \o sess.hw_serial.txt)
    ELSE IF sess.hw_model.st = "live"
    THEN Snprintf(DescriptionSize, addr_str \o " " \o sess.hw_model.txt)
    ELSE IF Len(sess.devices) = 0
    THEN Snprintf(DescriptionSize, sess.description)
    ELSE LET x == DeviceList(Snprintf(DescriptionSize, addr_str \o " ("),
                             sess.devices, 1)
         IN  SubSeq(x, 1, Len(x) - 1) \o ")"

\* lines 90-114
Description(addr_str, sess) ==
    IF sess.hw_model.st = "live" /\ sess.hw_serial.st = "live"
    THEN Snprintf(DescriptionSize, addr_str \o " (" \o sess.hw_model.txt
                                   \o "), serial=" \o sess.hw_serial.txt)
    ELSE IF sess.hw_model.st = "live"
    THEN Snprintf(DescriptionSize, addr_str \o " " \o sess.hw_model.txt)
    ELSE IF sess.hw_serial.st = "live"
    THEN Snprintf(DescriptionSize, addr_str \o " " \o sess.hw_serial.txt)
    ELSE IF Len(sess.devices) = 0
    THEN Snprintf(DescriptionSize, sess.description)
    ELSE LET x == DeviceList(Snprintf(DescriptionSize, addr_str \o " ("),
                             sess.devices, 1)
         IN  SubSeq(x, 1, Len(x) - 1) \o ")"

\* lines 70-129; fail names the allocation that fails in this call:
\* "session" (network_create_context), "uri" or "description" (iio_strdup);
\* overrun tells that the call wrote past the end of uri[]
dnssd_fill_context_info(info, hostname, addr_str, port, sess, fail) ==
    IF fail = "session"
    THEN [ret |-> -ENOMEM, info |-> info, overrun |-> FALSE]
    ELSE IF fail = "uri"
    THEN [ret |-> -ENOMEM, info |-> [info EXCEPT !.uri = NullStr],
          overrun |-> UriOverrun(hostname, port)]
    ELSE IF fail = "description"
    THEN [ret |-> -ENOMEM,
          info |-> [uri |-> FreedStr(Uri(hostname, port)),
                    description |-> NullStr],
          overrun |-> UriOverrun(hostname, port)]
    ELSE [ret |-> 0,
          info |-> [uri |-> Str(Uri(hostname, port)),
                    description |-> Str(Description(addr_str, sess))],
          overrun |-> UriOverrun(hostname, port)]

----------------------------------------------------------------------------
(* Discovery and the result set, which dns_sd.c calls but does not define *)

\* no list has been allocated
NoList ==
    [d       |-> NULL,
     next    |-> [i \in Ids |-> NULL],
     freed   |-> [i \in Ids |-> 0],
     order   |-> <<>>,
     crashed |-> FALSE,
     uaf     |-> FALSE,
     trap    |-> FALSE,
     lock    |-> [i \in Ids |-> TRUE],
     held    |-> FALSE,
     acq     |-> 0,
     rel     |-> 0,
     badrel  |-> FALSE,
     bare    |-> FALSE,
     mis     |-> FALSE]

\* the negative codes discovery fails with
DiscoveryErrors == {-ENXIO, -ENOMEM, -1}

\* dnssd_find_hosts(): a negative code and no list, or a list of the n hosts
\* and a non-negative value (the number of hosts, or 0)
FindOutcomes(n) ==
    {[ret |-> e, list |-> FALSE] : e \in DiscoveryErrors}
        \cup {[ret |-> r, list |-> TRUE] : r \in {0, n}}

dnssd_find_hosts(s, f, n) == IF f.list THEN NewList(n) ELSE s

\* iio_scan_result_add(): n zero-filled entries are appended to the result set
iio_scan_result_add(sr, n) == sr \o [i \in 1..n |-> EmptyInfo]

\* the allocation failures one call can meet: none, or one kind of failure
\* at step `at' (0: the reservation of line 253; k: the k-th record)
NoFail == [at |-> -1, kind |-> "none"]

Fails(n) ==
    {NoFail, [at |-> 0, kind |-> "slot"]}
        \cup [at : 1..n, kind : {"slot", "session", "uri", "description"}]

\* a session without attributes or devices
PlainSession ==
    [hw_model |-> NullStr, hw_serial |-> NullStr, devices |-> <<>>,
     description |-> "ctx"]

\* no call has been made
NoInj == [sess |-> PlainSession, fail |-> NoFail]

----------------------------------------------------------------------------
(* The scan orchestrator and the single-host shortcut *)

\* a plausible slip: a failed build does not end the loop
RECURSIVE ScanLoopNoBreak(_, _, _, _)
ScanLoopNoBreak(c, ndata, k, x) ==
    LET s1 == Touch(c.s, ndata) IN
    IF s1.crashed THEN [c EXCEPT !.s = s1]
    ELSE IF s1.next[ndata] = NULL THEN c
    ELSE IF x.fail = [at |-> k, kind |-> "slot"]
    THEN [c EXCEPT !.ret = -ENOMEM]
    ELSE LET sr1 == iio_scan_result_add(c.sr, 1)
             r   == dnssd_fill_context_info(sr1[Len(sr1)],
                        rec[ndata].hostname, rec[ndata].addr_str,
                        rec[ndata].port, x.sess,
                        IF x.fail.at = k THEN x.fail.kind ELSE "none")
             c1  == [c EXCEPT !.sr = [sr1 EXCEPT ![Len(sr1)] = r.info],
                              !.ret = r.ret,
                              !.built = Append(@, ndata)]
         IN  ScanLoopNoBreak(c1, s1.next[ndata], k + 1, x)

\* a plausible slip: the k-th descriptor is written to the k-th slot of the
\* result set instead of the slot the aggregator handed back
RECURSIVE ScanLoopFillsByOrdinal(_, _, _, _)
ScanLoopFillsByOrdinal(c, ndata, k, x) ==
    LET s1 == Touch(c.s, ndata) IN
    IF s1.crashed THEN [c EXCEPT !.s = s1]
    ELSE IF s1.next[ndata] = NULL THEN c
    ELSE IF x.fail = [at |-> k, kind |-> "slot"]
    THEN [c EXCEPT !.ret = -ENOMEM]
    ELSE LET sr1 == iio_scan_result_add(c.sr, 1)
             r   == dnssd_fill_context_info(sr1[k],
                        rec[ndata].hostname, rec[ndata].addr_str,
                        rec[ndata].port, x.sess,
                        IF x.fail.at = k THEN x.fail.kind ELSE "none")
             c1  == [c EXCEPT !.sr = [sr1 EXCEPT ![k] = r.info],
                              !.ret = r.ret,
                              !.built = Append(@, ndata)]
         IN  IF r.ret < 0 THEN c1
             ELSE ScanLoopFillsByOrdinal(c1, s1.next[ndata], k + 1, x)

\* lines 259-270; c holds the list, the result set, ret and the build log
RECURSIVE ScanLoop(_, _, _, _)
ScanLoop(c, ndata, k, x) ==
    LET s1 == Touch(c.s, ndata) IN
    IF s1.crashed THEN [c EXCEPT !.s = s1]
    ELSE IF s1.next[ndata] = NULL THEN c
    ELSE IF x.fail = [at |-> k, kind |-> "slot"]
    THEN [c EXCEPT !.ret = -ENOMEM]
    ELSE LET sr1 == iio_scan_result_add(c.sr, 1)
             r   == dnssd_fill_context_info(sr1[Len(sr1)],
                        rec[ndata].hostname, rec[ndata].addr_str,
                        rec[ndata].port, x.sess,
                        IF x.fail.at = k THEN x.fail.kind ELSE "none")
             c1  == [c EXCEPT !.sr = [sr1 EXCEPT ![Len(sr1)] = r.info],
                              !.ret = r.ret,
                              !.built = Append(@, ndata)]
         IN  IF r.ret < 0 THEN c1
             ELSE ScanLoop(c1, s1.next[ndata], k + 1, x)

\* a plausible slip: the failed reservation returns without the goto
ScanFoundLeak(s, sr, f, x) ==
    IF x.fail = [at |-> 0, kind |-> "slot"]
    THEN [s |-> s, sr |-> sr, ret |-> -ENOMEM, built |-> <<>>]
    ELSE LET c == ScanLoop([s |-> s, sr |-> iio_scan_result_add(sr, f.ret),
                            ret |-> f.ret, built |-> <<>>], s.d, 1, x)
         IN  [c EXCEPT !.s = dnssd_free_all_discovery_data(c.s)]

\* lines 253-274: discovery handed over a list
ScanFound(s, sr, f, x) ==
    IF x.fail = [at |-> 0, kind |-> "slot"]
    THEN [s |-> dnssd_free_all_discovery_data(s), sr |-> sr,
          ret |-> -ENOMEM, built |-> <<>>]
    ELSE LET c == ScanLoop([s |-> s, sr |-> iio_scan_result_add(sr, f.ret),
                            ret |-> f.ret, built |-> <<>>], s.d, 1, x)
         IN  [c EXCEPT !.s = dnssd_free_all_discovery_data(c.s)]

\* a plausible slip: "no hosts" is not told apart from the other errors
ScanNoHostsIsError(s, sr, f, x) ==
    IF f.ret < 0
    THEN [s |-> s, sr |-> sr, ret |-> f.ret, built |-> <<>>]
    ELSE ScanFound(s, sr, f, x)

\* a plausible slip: every failure of discovery is taken for "no hosts"
ScanErrorIsNoHosts(s, sr, f, x) ==
    IF f.ret < 0
    THEN [s |-> s, sr |-> sr, ret |-> 0, built |-> <<>>]
    ELSE ScanFound(s, sr, f, x)

\* lines 237-275; s is the memory after dnssd_find_hosts() answered f
dnssd_context_scan(s, sr, f, x) ==
    IF f.ret = -ENXIO
    THEN [s |-> s, sr |-> sr, ret |-> 0, built |-> <<>>]
    ELSE IF f.ret < 0
    THEN [s |-> s, sr |-> sr, ret |-> f.ret, built |-> <<>>]
    ELSE ScanFound(s, sr, f, x)

\* strncpy(dst, src, n): the first n characters of src
Strncpy(src, n) == IF Len(src) > n THEN SubSeq(src, 1, n) ELSE src

\* a plausible slip: strcpy() in place of strncpy(), the capacity is ignored
DiscoverHostStrcpy(s, o, f, junk, addr_len) ==
    IF ~f.list /\ junk = "wild"
    THEN [s |-> [s EXCEPT !.crashed = TRUE], out |-> o, ret |-> f.ret]
    ELSE IF s.d # NULL
    THEN [s   |-> dnssd_free_all_discovery_data(s),
          out |-> [addr    |-> rec[s.d].addr_str,
                   port    |-> rec[s.d].port,
                   written |-> TRUE],
          ret |-> f.ret]
    ELSE [s |-> s, out |-> o, ret |-> f.ret]

\* lines 277-293; when discovery hands over no list, ddata is whatever the
\* uninitialised local holds: junk = "null" reads as NULL, "wild" as a
\* pointer to no node, whose dereference stops the process
dnssd_discover_host(s, o, f, junk, addr_len) ==
    IF ~f.list /\ junk = "wild"
    THEN [s |-> [s EXCEPT !.crashed = TRUE], out |-> o, ret |-> f.ret]
    ELSE IF s.d # NULL
    THEN [s   |-> dnssd_free_all_discovery_data(s),
          out |-> [addr    |-> Strncpy(rec[s.d].addr_str, addr_len),
                   port    |-> rec[s.d].port,
                   written |-> TRUE],
          ret |-> f.ret]
    ELSE [s |-> s, out |-> o, ret |-> f.ret]

----------------------------------------------------------------------------
(* Specification SpecList: list operations on every bounded list *)

\* the scan side of the state when only list operations run
ScanIdle ==
    /\ hosts = <<>>
    /\ scan_result = <<>>
    /\ res0 = <<>>
    /\ ret = 0
    /\ find = [ret |-> 0, list |-> FALSE]
    /\ built = <<>>
    /\ inj = NoInj
    /\ out = [addr |-> "", port |-> 0, written |-> FALSE]

\* which nodes of a fresh list carry the reference to its lock: all of them,
\* or the head alone
LockLayouts == {[i \in Ids |-> TRUE], [i \in Ids |-> i = 1]}

InitList ==
    /\ pc = "ready"
    /\ \E n \in 0..MaxRecs : \E l \in LockLayouts :
         /\ mem = [NewList(n) EXCEPT !.lock = l]
         /\ \E f \in [1..n -> RecordKinds] :
              rec = [i \in Ids |-> IF i <= n THEN f[i] ELSE EmptyNode]
         /\ orig = [i \in 1..(n + 1) |-> i]
         /\ before = [i \in 1..(n + 1) |-> i]
    /\ cand = [i \in Ids |-> <<>>]
    /\ arg = 0
    /\ passes = 0
    /\ ScanIdle

RemoveNode ==
    /\ pc = "ready"
    /\ \E n \in 0..MaxRecs :
         /\ mem' = dnssd_remove_node(mem, n)
         /\ arg' = n
    /\ before' = Chain(mem)
    /\ pc' = "removed"
    /\ UNCHANGED <<rec, cand, orig, passes, scanVars>>

RemoveDup ==
    /\ pc \in {"ready", "dedup"}
    /\ passes < 2
    /\ ~mem.crashed
    /\ \E t \in BOOLEAN :
         mem' = remove_dup_discovery_data([mem EXCEPT !.trap = t])
    /\ before' = Chain(mem)
    /\ passes' = passes + 1
    /\ pc' = "dedup"
    /\ UNCHANGED <<rec, cand, orig, arg, scanVars>>

FreeAll ==
    /\ pc \in {"ready", "dedup"}
    /\ ~mem.crashed
    /\ mem' = dnssd_free_all_discovery_data(mem)
    /\ before' = Chain(mem)
    /\ pc' = "freed"
    /\ UNCHANGED <<rec, cand, orig, arg, passes, scanVars>>

NextList == RemoveNode \/ RemoveDup \/ FreeAll

SpecList == InitList /\ [][NextList]_vars

----------------------------------------------------------------------------
(* Specification SpecKnock: the validator on every bounded list and every
   answer of the network *)

KnockRec == [hostname |-> "h1", addr_str |-> "a1", port |-> IIOD_PORT]

InitKnock ==
    /\ pc = "ready"
    /\ \E n \in 0..MaxRecs : \E l \in LockLayouts :
         /\ mem = [NewList(n) EXCEPT !.lock = l]
         /\ rec = [i \in Ids |-> IF i <= n THEN KnockRec ELSE EmptyNode]
         /\ \E f \in [1..n -> CandOutcomes] :
              cand = [i \in Ids |-> IF i <= n THEN f[i] ELSE <<>>]
         /\ orig = [i \in 1..(n + 1) |-> i]
         /\ before = [i \in 1..(n + 1) |-> i]
    /\ arg = 0
    /\ passes = 0
    /\ ScanIdle

PortKnock ==
    /\ pc = "ready"
    /\ \E t \in BOOLEAN :
         mem' = port_knock_discovery_data([mem EXCEPT !.trap = t])
    /\ before' = Chain(mem)
    /\ pc' = "knocked"
    /\ UNCHANGED <<rec, cand, orig, arg, passes, scanVars>>

NextKnock == PortKnock

SpecKnock == InitKnock /\ [][NextKnock]_vars

----------------------------------------------------------------------------
(* Specification Spec: one call of the scan or of the single-host shortcut,
   for every bounded network, discovery answer and allocation failure *)

\* the hosts of the scan runs: both hosts, on the default and on another port
ScanKinds ==
    {k \in RecordKinds : (k.hostname = "h1") <=> (k.addr_str = "a1")}

\* the sessions of the scan runs
ScanSessions == {x \in Sessions : Len(x.devices) = 0}

\* an entry another backend put in the result set before this scan
PrevInfo(i) ==
    [uri |-> Str("usb:1.2." \o ToString(i)), description |-> Str("prev")]

Init ==
    /\ pc = "ready"
    /\ mem = NoList
    /\ \E n \in 0..MaxRecs : \E h \in [1..n -> ScanKinds] :
         /\ hosts = h
         /\ rec = [i \in Ids |-> IF i <= n THEN h[i] ELSE EmptyNode]
    /\ cand = [i \in Ids |-> <<>>]
    /\ orig = <<>>
    /\ before = <<>>
    /\ arg = 0
    /\ passes = 0
    /\ \E m \in 0..MaxPrev :
         /\ scan_result = [i \in 1..m |-> PrevInfo(i)]
         /\ res0 = [i \in 1..m |-> PrevInfo(i)]
    /\ ret = 0
    /\ find = [ret |-> 0, list |-> FALSE]
    /\ built = <<>>
    /\ inj = NoInj
    /\ out = [addr |-> "", port |-> 0, written |-> FALSE]

ContextScan ==
    /\ pc = "ready"
    /\ \E f \in FindOutcomes(Len(hosts)) :
       \E sess \in ScanSessions :
       \E fail \in Fails(Len(hosts)) :
         LET s0 == dnssd_find_hosts(mem, f, Len(hosts))
             r  == dnssd_context_scan(s0, scan_result, f,
                                      [sess |-> sess, fail |-> fail])
         IN  /\ mem' = r.s
             /\ scan_result' = r.sr
             /\ ret' = r.ret
             /\ built' = r.built
             /\ find' = f
             /\ orig' = Chain(s0)
             /\ inj' = [sess |-> sess, fail |-> fail]
    /\ pc' = "scanned"
    /\ UNCHANGED <<rec, cand, before, arg, passes, hosts, res0, out>>

DiscoverHost ==
    /\ pc = "ready"
    /\ \E f \in FindOutcomes(Len(hosts)) :
       \E junk \in {"null", "wild"} :
       \E addr_len \in 0..MaxAddrLen :
         LET s0 == dnssd_find_hosts(mem, f, Len(hosts))
             r  == dnssd_discover_host(s0, out, f, junk, addr_len)
         IN  /\ mem' = r.s
             /\ out' = r.out
             /\ ret' = r.ret
             /\ find' = f
             /\ orig' = Chain(s0)
             /\ arg' = addr_len
    /\ pc' = "discovered"
    /\ UNCHANGED <<rec, cand, before, passes, hosts, scan_result, res0, built, inj>>

Next == ContextScan \/ DiscoverHost

Spec == Init /\ [][Next]_vars

----------------------------------------------------------------------------
(* Specification SpecFill: one call of dnssd_fill_context_info *)

\* a host name that fits uri[] behind "ip:" but not with a port behind it
LongHost == Pad("h", MAXHOSTNAMELEN - 4)

\* an attribute value longer than description[]
LongText == Pad("x", DescriptionSize + 5)

FillRecords ==
    [hostname : Hosts \cup {LongHost}, addr_str : Addrs, port : Ports]

\* the sessions of the calls: those of Sessions, and those with an attribute
\* or a context description that does not fit description[]
FillSessions ==
    [hw_model    : {NullStr, Str("M2K"), Str(LongText)},
     hw_serial   : {NullStr, Str("SN123")},
     devices     : UNION {[1..k -> DeviceNames] : k \in 0..MaxDevices},
     description : {"ctx", LongText}]

FillFails == {NoFail} \cup [at : {1}, kind : {"session", "uri", "description"}]

InitFill ==
    /\ pc = "ready"
    /\ mem = NoList
    /\ rec = [i \in Ids |-> EmptyNode]
    /\ cand = [i \in Ids |-> <<>>]
    /\ orig = <<>>
    /\ before = <<>>
    /\ arg = 0
    /\ passes = 0
    /\ \E r \in FillRecords : hosts = <<r>>
    /\ scan_result = <<EmptyInfo>>
    /\ res0 = <<EmptyInfo>>
    /\ ret = 0
    /\ find = [ret |-> 0, list |-> FALSE]
    /\ built = <<>>
    /\ \E sess \in FillSessions : \E fail \in FillFails :
         inj = [sess |-> sess, fail |-> fail]
    /\ out = [addr |-> "", port |-> 0, written |-> FALSE]

\* the call of line 266 for the host hosts[1]; writing past the end of
\* uri[] is undefined: the process stops, or the call goes on as if the
\* array were large enough
Fill ==
    /\ pc = "ready"
    /\ \E t \in BOOLEAN :
         LET r == dnssd_fill_context_info(scan_result[1], hosts[1].hostname,
                      hosts[1].addr_str, hosts[1].port, inj.sess,
                      inj.fail.kind)
         IN  IF r.overrun /\ t
             THEN /\ mem' = [mem EXCEPT !.crashed = TRUE, !.trap = TRUE]
                  /\ UNCHANGED <<scan_result, ret>>
             ELSE /\ mem' = [mem EXCEPT !.trap = t]
                  /\ scan_result' = <<r.info>>
                  /\ ret' = r.ret
    /\ pc' = "filled"
    /\ UNCHANGED <<rec, cand, orig, before, arg, passes, hosts, res0, find,
                   built, inj, out>>

NextFill == Fill

SpecFill == InitFill /\ [][NextFill]_vars

----------------------------------------------------------------------------
(* C7 *)

\* s without its k-th element (k counted from 0)
Without(s, k) == SubSeq(s, 1, k) \o SubSeq(s, k + 2, Len(s))

\* C7: removing the record at a valid index k of a list of n records leaves
\* the n-1 other records in their original order; when k = 0 the head
\* advances to the former second node
C7_RemovalCorrect ==
    (pc = "removed" /\ arg < Len(RecordsOf(before)))
        => /\ ~mem.crashed
           /\ Records(mem) = Without(RecordsOf(before), arg)
           /\ Len(Records(mem)) = Len(RecordsOf(before)) - 1
           /\ Chain(mem) = Without(before, arg)
           /\ mem.freed = [i \in Ids |-> IF i = before[arg + 1] THEN 1 ELSE 0]
           /\ (arg = 0 => mem.d = before[2])

C7_Witness ==
    /\ pc = "removed"
    /\ Len(RecordsOf(before)) = MaxRecs
    /\ arg = MaxRecs - 1
    /\ Len(Records(mem)) = MaxRecs - 1

----------------------------------------------------------------------------
(* C5, C6 *)

\* the records of c that no earlier record of c equals by (hostname, address)
FirstOfKey(c) ==
    LET keep(k) == \A j \in 1..(k - 1) : ~SameKey(c[j], c[k])
        RECURSIVE Pick(_)
        Pick(k) == IF k > Len(c) THEN <<>>
                   ELSE (IF keep(k) THEN <<c[k]>> ELSE <<>>) \o Pick(k + 1)
    IN  Pick(1)

\* C5: after one deduplication pass that ran to its end, the surviving
\* records are exactly the earliest record of every (hostname, address) key,
\* in their original order
C5_DedupKeepsEarliest ==
    (pc = "dedup" /\ passes = 1 /\ ~mem.crashed)
        => Records(mem) = FirstOfKey(RecordsOf(orig))

\* C6: a second deduplication pass that ran to its end leaves the records
\* the first pass left, in the same order
C6_DedupIdempotent ==
    (pc = "dedup" /\ passes = 2 /\ ~mem.crashed)
        => Records(mem) = RecordsOf(before)

----------------------------------------------------------------------------
(* C4 *)

\* the host resolved and at least one resolved candidate accepted a connection
Reachable(p) == \E k \in 1..Len(cand[p]) : cand[p][k]

\* C4: after a validation pass that ran to its end, a record is still in the
\* list iff its address resolved and one of its candidates connected, and
\* the list is shorter by exactly the number of records that failed
C4_ValidatorExclusion ==
    (pc = "knocked" /\ ~mem.crashed)
        => /\ Records(mem) = SelectSeq(RecordsOf(orig), Reachable)
           /\ Len(RecordsOf(orig)) - Len(Records(mem))
                = Cardinality({k \in 1..Len(RecordsOf(orig)) :
                                 ~Reachable(orig[k])})

----------------------------------------------------------------------------
(* C1, C2, C3, C8, C9, C10 *)

\* the entries the call appended to the result set
Added == SubSeq(scan_result, Len(res0) + 1, Len(scan_result))

\* an entry with both its strings in place
Filled(e) == e.uri.st = "live" /\ e.description.st = "live"

\* the descriptor dnssd_fill_context_info() builds for node p
DescriptorOf(p) ==
    [uri         |-> Str(Uri(rec[p].hostname, rec[p].port)),
     description |-> Str(Description(rec[p].addr_str, inj.sess))]

\* the call met none of the allocation failures
NoFailureMet == inj.fail = NoFail \/ inj.fail.at > Len(RecordsOf(orig))

\* C1: when discovery reports "no hosts" (-ENXIO), the scan returns 0 and the
\* result set holds exactly the entries it held before the call
C1_NoHostsIsSuccess ==
    (pc = "scanned" /\ find.ret = -ENXIO)
        => (ret = 0 /\ scan_result = res0)

C1_Witness ==
    /\ pc = "scanned"
    /\ find.ret = -ENXIO
    /\ ret = 0
    /\ hosts = <<>>
    /\ Len(res0) = MaxPrev
    /\ scan_result = res0

C3_ReturnIsCount ==
    pc = "scanned"
        => /\ (find.ret >= 0 /\ NoFailureMet)
                => (ret >= 0 /\ ret = Len(SelectSeq(Added, Filled)))
           /\ ret < 0 => (find.ret < 0 \/ ~NoFailureMet)

\* C8: when building the descriptor of the k-th record fails, the builds
\* attempted are those of records 1..k and no later one, the scan returns a
\* negative code, and the entries of the result set from before the call
\* and the descriptors of records 1..k-1 are in place, unchanged
C8_BuildFailureAborts ==
    (/\ pc = "scanned"
     /\ find.list
     /\ inj.fail.kind \in {"session", "uri", "description"}
     /\ inj.fail.at <= Len(RecordsOf(orig)))
        => /\ built = SubSeq(orig, 1, inj.fail.at)
           /\ ret < 0
           /\ SubSeq(scan_result, 1, Len(res0)) = res0
           /\ Len(Added) = find.ret + inj.fail.at
           /\ \A k \in 1..(inj.fail.at - 1) :
                Added[find.ret + k] = DescriptorOf(orig[k])

C8_Witness ==
    /\ pc = "scanned"
    /\ find.list
    /\ Len(RecordsOf(orig)) = MaxRecs
    /\ inj.fail = [at |-> 2, kind |-> "session"]
    /\ Len(res0) = MaxPrev
    /\ ret < 0
    /\ Len(built) = 2
    /\ Filled(Added[find.ret + 1])

\* C9: when discovery fails with a negative code other than -ENXIO, the scan
\* returns that code and the result set holds exactly the entries it held
\* before the call
C9_DiscoveryErrorPropagates ==
    (pc = "scanned" /\ find.ret < 0 /\ find.ret # -ENXIO)
        => (ret = find.ret /\ scan_result = res0)

C9_Witness ==
    /\ pc = "scanned"
    /\ find.ret = -ENOMEM
    /\ ret = -ENOMEM
    /\ Len(res0) = MaxPrev
    /\ scan_result = res0

\* C10: when discovery finds no host, dnssd_discover_host returns a
\* non-negative code and writes neither the address buffer nor the port
C10_NoHostIsNonNegative ==
    (pc = "discovered" /\ find.ret = -ENXIO)
        => (ret >= 0 /\ ~out.written)

----------------------------------------------------------------------------
(* C11 *)

\* x is the string y cut to at most n characters
PrefixOf(x, y, n) ==
    /\ Len(x) = (IF Len(y) < n THEN Len(y) ELSE n)
    /\ \A i \in 1..Len(x) : SubSeq(x, i, i) = SubSeq(y, i, i)

\* C11: when discovery hands over at least one record, dnssd_discover_host
\* writes the first record's port and the first record's address, cut to at
\* most the caller's capacity, and every node of the list has been freed
\* when it returns
C11_FirstHostCopied ==
    (pc = "discovered" /\ find.list /\ Len(RecordsOf(orig)) >= 1)
        => /\ out.written
           /\ out.port = rec[orig[1]].port
           /\ PrefixOf(out.addr, rec[orig[1]].addr_str, arg)
           /\ Len(out.addr) <= arg
           /\ ~mem.crashed
           /\ Chain(mem) = <<>>
           /\ \A k \in 1..Len(orig) : mem.freed[orig[k]] = 1

C11_Witness ==
    /\ pc = "discovered"
    /\ find.list
    /\ Len(RecordsOf(orig)) = MaxRecs
    /\ arg = 1
    /\ out.addr = "a"
    /\ out.port = OtherPort
    /\ \A k \in 1..Len(orig) : mem.freed[orig[k]] = 1

----------------------------------------------------------------------------
(* C12 *)

\* C12: across a call of dnssd_context_scan the entries the result set held
\* before the call are still there, unchanged and in the same order, at the
\* front of the result set: the scan only appends
C12_ScanOnlyAppends ==
    pc = "scanned"
        => /\ Len(scan_result) >= Len(res0)
           /\ \A i \in 1..Len(res0) : scan_result[i] = res0[i]

C12_Witness ==
    /\ pc = "scanned"
    /\ Len(res0) = MaxPrev
    /\ MaxPrev >= 2
    /\ res0[1] # res0[2]
    /\ Len(built) = MaxRecs
    /\ ret >= 0
    /\ Len(scan_result) > Len(res0)
    /\ \A i \in 1..Len(res0) : scan_result[i] = res0[i]

----------------------------------------------------------------------------
(* C16 *)

\* C16: after a scan that met no error, over a list of S records, the result
\* set has grown by exactly S entries and every added entry has its uri and
\* its description filled in: no reserved slot is left unfilled
C16_NoBlankSlots ==
    (pc = "scanned" /\ find.ret >= 0 /\ NoFailureMet /\ ~mem.crashed)
        => /\ Len(Added) = Len(RecordsOf(orig))
           /\ \A i \in 1..Len(Added) : Filled(Added[i])

----------------------------------------------------------------------------
(* C13 *)

\* the call of dnssd_fill_context_info met no allocation failure
FillMetNoFailure == inj.fail = NoFail

\* C13: the uri built for a host is "ip:<hostname>" when its port is
\* IIOD_PORT and "ip:<hostname>:<port>" for every other port
C13_UriForm ==
    (pc = "filled" /\ FillMetNoFailure)
        => /\ ~mem.crashed
           /\ ret = 0
           /\ scan_result[1].uri.st = "live"
           /\ hosts[1].port = IIOD_PORT
                => scan_result[1].uri.txt = "ip:" \o hosts[1].hostname
           /\ hosts[1].port # IIOD_PORT
                => scan_result[1].uri.txt =
                     "ip:" \o hosts[1].hostname \o ":"
                           \o ToString(hosts[1].port)

----------------------------------------------------------------------------
(* C14 *)

\* the call returned a descriptor
FillReturned ==
    pc = "filled" /\ FillMetNoFailure /\ ~mem.crashed /\ ret = 0

FillModel == inj.sess.hw_model

FillSerial == inj.sess.hw_serial

FillDescription == scan_result[1].description.txt

\* the four forms of the description; the device list is the fifth
BothForm ==
    hosts[1].addr_str \o " (" \o FillModel.txt \o "), serial="
        \o FillSerial.txt

ModelForm == hosts[1].addr_str \o " " \o FillModel.txt

SerialForm == hosts[1].addr_str \o " " \o FillSerial.txt

\* the description closes a parenthesis it opened behind the address
ListShaped(x) ==
    /\ Len(x) >= Len(hosts[1].addr_str) + 2
    /\ SubSeq(x, 1, Len(hosts[1].addr_str)) = hosts[1].addr_str
    /\ SubSeq(x, Len(x), Len(x)) = ")"
    /\ \A i \in 1..(Len(x) - 7) : SubSeq(x, i, i + 7) # " serial="

\* C14 as stated: the description is "<address> (<model>), serial=<serial>"
\* when model and serial are known, "<address> <model>" with the model only,
\* "<address> <serial>" with the serial only, the session's own description
\* verbatim with neither and no device, and the device list only with
\* neither and at least one device
C14_DescriptionPriority ==
    FillReturned
        => /\ scan_result[1].description.st = "live"
           /\ (FillModel.st = "live" /\ FillSerial.st = "live")
                => FillDescription = BothForm
           /\ (FillModel.st = "live" /\ FillSerial.st = "null")
                => FillDescription = ModelForm
           /\ (FillModel.st = "null" /\ FillSerial.st = "live")
                => FillDescription = SerialForm
           /\ (FillModel.st = "null" /\ FillSerial.st = "null"
                 /\ Len(inj.sess.devices) = 0)
                => FillDescription = inj.sess.description
           /\ ListShaped(FillDescription)
                => (FillModel.st = "null" /\ FillSerial.st = "null"
                      /\ Len(inj.sess.devices) >= 1)

\* what fits description[]: the first DescriptionSize - 1 characters
Fits(x) ==
    IF Len(x) <= DescriptionSize - 1 THEN x
    ELSE SubSeq(x, 1, DescriptionSize - 1)

\* C14, amended: the description is the form C14 names for the case, cut
\* to the DescriptionSize - 1 characters that fit description[]
C14_DescriptionPriorityCut ==
    FillReturned
        => /\ scan_result[1].description.st = "live"
           /\ Len(FillDescription) <= DescriptionSize - 1
           /\ (FillModel.st = "live" /\ FillSerial.st = "live")
                => FillDescription = Fits(BothForm)
           /\ (FillModel.st = "live" /\ FillSerial.st = "null")
                => FillDescription = Fits(ModelForm)
           /\ (FillModel.st = "null" /\ FillSerial.st = "live")
                => FillDescription = Fits(SerialForm)
           /\ (FillModel.st = "null" /\ FillSerial.st = "null"
                 /\ Len(inj.sess.devices) = 0)
                => FillDescription = Fits(inj.sess.description)
           /\ (ListShaped(FillDescription)
                 /\ Len(FillDescription) < DescriptionSize - 1)
                => (FillModel.st = "null" /\ FillSerial.st = "null"
                      /\ Len(inj.sess.devices) >= 1)

C14_Witness ==
    /\ FillReturned
    /\ FillModel = Str(LongText)
    /\ FillSerial.st = "live"
    /\ FillDescription = SubSeq(BothForm, 1, DescriptionSize - 1)
    /\ FillDescription # BothForm

----------------------------------------------------------------------------
(* C17 *)

\* the names of the named devices among the first n of devs, joined by ","
RECURSIVE JoinNames(_, _)
JoinNames(devs, n) ==
    IF n = 0 THEN ""
    ELSE LET head == JoinNames(devs, n - 1) IN
         IF devs[n].st # "live" THEN head
         ELSE IF head = "" THEN devs[n].txt
         ELSE head \o "," \o devs[n].txt

\* C17: with neither model nor serial known and at least one device, the
\* description is "<address> (", the comma-joined names of all devices but
\* the last, and ")" in the place of the trailing separator, for every
\* number of devices from one on and whether or not the devices have names
C17_DeviceListForm ==
    (FillReturned /\ FillModel.st = "null" /\ FillSerial.st = "null"
       /\ Len(inj.sess.devices) >= 1)
        => FillDescription =
             hosts[1].addr_str \o " ("
                \o JoinNames(inj.sess.devices, Len(inj.sess.devices) - 1)
                \o ")"

----------------------------------------------------------------------------
(* C15 *)

\* C15: in the deduplication and validation passes every traversal and
\* removal step runs with the list's lock held, and a pass that returns has
\* released, exactly once, the lock it acquired at its start, also when it
\* removed the head record
C15_LockDiscipline ==
    pc \in {"dedup", "knocked"}
        => /\ ~mem.bare
           /\ ~mem.crashed
                => /\ ~mem.held
                   /\ ~mem.badrel
                   /\ mem.rel = mem.acq

----------------------------------------------------------------------------
(* C18 *)

\* C18: in the deduplication and validation passes the cursor never reads a
\* field of a record that has been removed and freed, and every index handed
\* to dnssd_remove_node designates the record the cursor points to
C18_CursorSafe ==
    pc \in {"dedup", "knocked"} => (~mem.uaf /\ ~mem.mis)

----------------------------------------------------------------------------
(* C19 *)

\* the last n elements of s
LastOf(s, n) == SubSeq(s, Len(s) - n + 1, Len(s))

\* C19: dnssd_free_all_discovery_data, on any list, comes to an end with the
\* list empty, after removing the head at each step (the nodes are freed in
\* list order, head first) and freeing every node of the list exactly once
C19_FreeAllEmpties ==
    pc = "freed"
        => /\ ~mem.crashed
           /\ mem.d = NULL
           /\ Chain(mem) = <<>>
           /\ Len(mem.order) >= Len(before)
           /\ LastOf(mem.order, Len(before)) = before
           /\ \A k \in 1..Len(before) : mem.freed[before[k]] = 1
           /\ \A i \in Ids : mem.freed[i] <= 1

C19_Witness ==
    /\ pc = "freed"
    /\ Len(before) = MaxNodes
    /\ mem.d = NULL
    /\ mem.order = before
    /\ \A i \in Ids : mem.freed[i] = 1

====
